---- MODULE Spec2Model ----
(***************************************************************************)
(* QMS publish service: two webhook handlers (app.py, the strict variant,  *)
(* and main.py, the snapshot variant) that reconcile a JSON payload with a *)
(* two-tab spreadsheet.  The spreadsheet is the state; one publish request *)
(* is one action (Spec) or a sequence of store calls (SpecConc); the       *)
(* schema helper is also run on its own (SpecEnsure).                      *)
(*                                                                         *)
(* Cells, payload values and column names are strings.  Python's None,     *)
(* True and False are the tokens None, TrueV and FalseV.  Sheet row        *)
(* numbers are 1-based with the header on row 1, as in the code: data row  *)
(* n of the sheet is rows[tab][n - 1].                                     *)
(***************************************************************************)
EXTENDS Integers, Sequences, FiniteSets, TLC

VARIABLES
    variant,            \* which handler is deployed: "app" (app.py) or "main" (main.py)
    AUTO_ADD_COLUMNS,   \* the environment switch, fixed for a deployment
    hdr,                \* hdr[tab]: row 1 of the tab
    rows,               \* rows[tab]: rows 2.. of the tab, trailing blank cells trimmed
    clock,              \* number of requests served so far; now_iso() of a request
    hashOrder,          \* the order list(set(...)) yields in this interpreter (main.py)
    req,                \* the body of the last request
    resp,               \* the response to the last request
    inflight,           \* inflight[p]: the locals of the request worker p is serving
    call                \* the last call of the schema helper run on its own

vars == <<variant, AUTO_ADD_COLUMNS, hashOrder, hdr, rows, clock, req, resp, inflight, call>>

\* ------------------------------------------------------------------ bounds
MaxClock == 1

\* ------------------------------------------------------------------ values
None == "@None"
TrueV == "@True"
FalseV == "@False"

\* str(v)
Str(v) ==
    CASE v = None -> "None"
      [] v = TrueV -> "True"
      [] v = FalseV -> "False"
      [] OTHER -> v

\* s.strip(), on the strings of the model
Strip(s) ==
    CASE s = " k1" -> "k1"
      [] s = " " -> ""
      [] s = " yes " -> "yes"
      [] OTHER -> s

\* s.lower(), on the strings of the model
Lower(s) ==
    CASE s = "YES" -> "yes"
      [] s = "True" -> "true"
      [] s = "False" -> "false"
      [] s = "None" -> "none"
      [] OTHER -> s

\* What the store keeps of a value written with valueInputOption RAW and
\* returns on a later read: booleans come back as TRUE / FALSE.
Stored(v) ==
    CASE v = TrueV -> "TRUE"
      [] v = FalseV -> "FALSE"
      [] v = None -> ""
      [] OTHER -> v

Range(s) == {s[i] : i \in DOMAIN s}

\* list.index(x), 1-based
index(s, x) == CHOOSE i \in 1..Len(s) : s[i] = x /\ \A j \in 1..(i - 1) : s[j] # x

\* row[i] if i < len(row) else ""
Cell(row, i) == IF i \in 1..Len(row) THEN row[i] ELSE ""

\* (row + [""] * width)[:width]
Pad(row, width) == [i \in 1..width |-> IF i <= Len(row) THEN row[i] ELSE ""] \o <<>>

RECURSIVE RTrim(_)
\* values.get omits trailing empty cells of a row
RTrim(row) ==
    IF row = <<>> \/ row[Len(row)] # "" THEN row
    ELSE RTrim(SubSeq(row, 1, Len(row) - 1))

RECURSIVE uniqFrom(_, _, _)
uniqFrom(seq, i, out) ==
    IF i > Len(seq) THEN out
    ELSE uniqFrom(seq, i + 1,
                  IF seq[i] # "" /\ seq[i] \notin Range(out) THEN Append(out, seq[i]) ELSE out)

uniq(seq) == uniqFrom(seq, 1, <<>>)

\* the second components of a mapping: list(mapping.values())
RECURSIVE MapValues(_)
MapValues(mapping) ==
    IF mapping = <<>> THEN <<>> ELSE <<mapping[1][2]>> \o MapValues(Tail(mapping))

RECURSIVE MapKeys(_)
MapKeys(mapping) ==
    IF mapping = <<>> THEN <<>> ELSE <<mapping[1][1]>> \o MapKeys(Tail(mapping))

\* now_iso() of request number n
TS(n) == "t" \o ToString(n)

\* ------------------------------------------------------------------ configuration
\* cfg of app.py (mapping.yaml): the keys the handler reads, with the code's
\* defaults where it has them.
main_pk_col == "ID"
proc_fk_col == "ID"
proc_pk_col == "Row ID"
main_mapping == << <<"row_id", "ID">>, <<"A", "A">>, <<"B", "B">> >>
proc_mapping == << <<"row_id", "ID">>, <<"UID", "UID">>, <<"P", "P">> >>
soft_col == "is_deleted"
soft_at_col == "deleted_at"
updated_at_col == "updated_at"
delete_flag_keys == <<"is_deleted">>

\* ------------------------------------------------------------------ the store
\* A request's context c carries the sheet (c.hdr, c.rows), the handler's
\* local variables and the log of its store calls (c.ops).

\* The store calls of a request, in order: "read_range" is a scan of a tab
\* from row 2, "get_row_values" (app.py) and "read_row" (main.py) read one row.
Log(c, op, tab) == [c EXCEPT !.ops = Append(@, <<op, tab>>)]

Fail(c, e, tab, cols) == [c EXCEPT !.err = e, !.detail = <<tab, cols>>, !.pc = "done"]

\* write_range(svc, f"{tab}!1:1", [values])
write_header(c, tab, values) ==
    [Log(c, "write_range", tab) EXCEPT !.hdr[tab] = RTrim(values)]

\* cells 1..len(values) of the row are overwritten, the others kept
Overwrite(old, values) ==
    RTrim([i \in 1..(IF Len(values) > Len(old) THEN Len(values) ELSE Len(old)) |->
              IF i <= Len(values) THEN Stored(values[i]) ELSE old[i]] \o <<>>)

\* an append that lands on the last row instead of after it
append_row_InPlace(c, tab, values) ==
    [Log(c, "append_row", tab) EXCEPT
        !.rows[tab] = IF @ = <<>> THEN <<Overwrite(<<>>, values)>>
                      ELSE [@ EXCEPT ![Len(@)] = Overwrite(<<>>, values)]]

\* append_row(svc, tab, values): a new row after the last one
append_row(c, tab, values) ==
    [Log(c, "append_row", tab) EXCEPT !.rows[tab] = Append(@, Overwrite(<<>>, values))]

\* one (range, values) pair of a batch: row row_num of tab, from column A
WriteRow(rws, u) ==
    IF u.row - 1 \in 1..Len(rws[u.tab])
    THEN [rws EXCEPT ![u.tab][u.row - 1] = Overwrite(@, u.vals)]
    ELSE rws

RECURSIVE ApplyUpdates(_, _)
ApplyUpdates(rws, updates) ==
    IF updates = <<>> THEN rws
    ELSE ApplyUpdates(WriteRow(rws, updates[1]), Tail(updates))

RECURSIVE write_each(_, _)
write_each(c, updates) ==
    IF updates = <<>> THEN c
    ELSE write_each([Log(c, "batch_update", "") EXCEPT !.rows = WriteRow(@, updates[1])],
                    Tail(updates))

\* a batch that is sent as one request per range
batch_update_Each(c, updates) == write_each(c, updates)

\* batch_update(svc, updates): the ranges are written in order
batch_update(c, updates) ==
    [Log(c, "batch_update", "") EXCEPT !.rows = ApplyUpdates(@, updates)]

\* get_row_values(svc, tab, row_num, width)
get_row_values(c, tab, row_num, width) ==
    Pad(IF row_num - 1 \in 1..Len(c.rows[tab]) THEN c.rows[tab][row_num - 1] ELSE <<>>, width)

\* ------------------------------------------------------------------ app.py helpers
\* ensure_columns(svc, tab, required); the headers returned are c.ret
ensure_columns(c, tab, required) ==
    LET headers == c.hdr[tab]
        wanted == uniq(required)
        c0 == Log(c, "get_headers", tab)
        missing == SelectSeq(wanted, LAMBDA col : col \notin Range(headers))
    IN  IF headers = <<>>
        THEN [write_header(c0, tab, wanted) EXCEPT !.ret = wanted]
        ELSE IF missing # <<>>
             THEN IF ~AUTO_ADD_COLUMNS
                  THEN Fail(c0, "SchemaMismatch", tab, missing)
                  ELSE [write_header(c0, tab, headers \o missing) EXCEPT !.ret = headers \o missing]
             ELSE [c0 EXCEPT !.ret = headers]

\* the scan of find_row_num_by_key: first data row whose key cell matches, 0 for None
\* a lookup that reads the column to the right of the key column
FirstMatch_OffByOne(values, key_idx, key_value) ==
    LET hits == {n \in 1..Len(values) :
                    Strip(Str(Cell(values[n], key_idx + 1))) = Strip(Str(key_value))}
    IN  IF hits = {} THEN 0
        ELSE 1 + (CHOOSE n \in hits : \A m \in hits : n <= m)

FirstMatch(values, key_idx, key_value) ==
    LET hits == {n \in 1..Len(values) : Strip(Str(Cell(values[n], key_idx))) = Strip(Str(key_value))}
    IN  IF hits = {} THEN 0
        ELSE 1 + (CHOOSE n \in hits : \A m \in hits : n <= m)

\* find_row_num_by_key(svc, tab, headers, key_col, key_value); the result is c.found
find_row_num_by_key(c, tab, headers, key_col, key_value) ==
    IF key_col \notin Range(headers)
    THEN Fail(c, "KeyColumnMissing", tab, <<key_col>>)
    ELSE [Log(c, "read_range", tab) EXCEPT
             !.found = FirstMatch(c.rows[tab], index(headers, key_col), key_value)]

RECURSIVE patch_from(_, _, _, _, _)
patch_from(i, headers, out, payload, mapping) ==
    IF i > Len(mapping) THEN out
    ELSE LET payload_key == mapping[i][1]
             sheet_col == mapping[i][2]
         IN  IF sheet_col \notin Range(headers)
                \/ payload_key \notin DOMAIN payload
                \/ payload[payload_key] = None
             THEN patch_from(i + 1, headers, out, payload, mapping)
             ELSE patch_from(i + 1, headers,
                             [out EXCEPT ![index(headers, sheet_col)] = payload[payload_key]],
                             payload, mapping)

\* a patch that starts from a blank row instead of the current one
patch_row_Replace(headers, current, payload, mapping) ==
    patch_from(1, headers, Pad(<<>>, Len(current)), payload, mapping)

\* patch_row(headers, current, payload, mapping)
patch_row(headers, current, payload, mapping) ==
    patch_from(1, headers, current, payload, mapping)

\* a set_cell that takes the 1-based column number for a 0-based index
set_cell_OffByOne(headers, row, col, value) ==
    IF col \notin Range(headers) \/ index(headers, col) = 1 THEN row
    ELSE [row EXCEPT ![index(headers, col) - 1] = value]

\* set_cell(headers, row, col, value)
set_cell(headers, row, col, value) ==
    IF col \notin Range(headers) THEN row
    ELSE [row EXCEPT ![index(headers, col)] = value]

RECURSIVE flag_from(_, _, _)
flag_from(obj, keys, i) ==
    IF i > Len(keys) THEN FALSE
    ELSE IF keys[i] \in DOMAIN obj
         THEN LET v == obj[keys[i]]
              IN  IF v \in {TrueV, FalseV} THEN v = TrueV
                  ELSE Lower(Strip(Str(v))) \in {"1", "true", "yes", "y"}
         ELSE flag_from(obj, keys, i + 1)

\* get_flag(obj, keys)
get_flag(obj, keys) == flag_from(obj, keys, 1)

\* ------------------------------------------------------------------ app.py: publish
\* A body is [f |-> the scalar fields present, pkind |-> how the "processes"
\* field arrives, plist |-> the list it holds or decodes to]:
\*   "absent"    the key is not in the body
\*   "null"      None
\*   "list"      a list
\*   "json"      a string json.loads turns into the list plist
\*   "blank"     a string that strips to ""
\*   "badjson"   a string json.loads rejects
\*   "jsonobj"   a string json.loads turns into something that is not a list
\*   "notlist"   any other value that is not a list
\* A child is [obj |-> isinstance(p, dict), kv |-> its fields].

\* The context of a request at its start.
NewCtx(h, r, body, ids, now) ==
    [hdr |-> h, rows |-> r, body |-> body, ids |-> ids, now |-> now,
     pc |-> "validate", err |-> "", detail |-> <<"", <<>>>>, ops |-> <<>>,
     ret |-> <<>>, found |-> 0,
     row_id |-> "", main_headers |-> <<>>, proc_headers |-> <<>>,
     main_row_num |-> 0, main_is_deleted |-> FALSE,
     updates |-> <<>>, main_action |-> "",
     added |-> 0, updated |-> 0, deleted |-> 0,
     processes |-> <<>>, existing_for_row |-> <<>>, incoming_uids |-> <<>>, i |-> 1]

\* app.py 225-236: the key check and the header checks of both tabs
AppValidate(c) ==
    LET body == c.body.f IN
    IF "row_id" \notin DOMAIN body \/ Strip(Str(body["row_id"])) = ""
    THEN Fail(c, "MissingKey", "", <<>>)
    ELSE
    LET c1 == ensure_columns([c EXCEPT !.row_id = Strip(Str(body["row_id"]))],
                             "main", <<main_pk_col>> \o MapValues(main_mapping))
    IN  IF c1.err # "" THEN c1 ELSE
    LET c2 == ensure_columns([c1 EXCEPT !.main_headers = c1.ret],
                             "proc", <<proc_fk_col, proc_pk_col>> \o MapValues(proc_mapping))
    IN  IF c2.err # "" THEN c2 ELSE
        [c2 EXCEPT !.proc_headers = c2.ret, !.pc = "locate"]

\* app.py 243-244
AppLocate(c) ==
    LET c1 == find_row_num_by_key(c, "main", c.main_headers, main_pk_col, c.row_id)
    IN  IF c1.err # "" THEN c1 ELSE
        [c1 EXCEPT !.main_row_num = c1.found,
                   !.main_is_deleted = get_flag(c.body.f, delete_flag_keys),
                   !.pc = "main"]

\* app.py 246-257
AppMainDelete(c) ==
    IF c.main_row_num = 0 THEN [c EXCEPT !.main_action = "soft_delete", !.pc = "parse"]
    ELSE
    LET c1 == ensure_columns(c, "main", <<soft_col, soft_at_col, updated_at_col>> \o c.main_headers)
    IN  IF c1.err # "" THEN c1 ELSE
    LET main_headers == c1.ret
        width == Len(main_headers)
        cur0 == get_row_values(c1, "main", c.main_row_num, width)
        cur1 == set_cell(main_headers, cur0, soft_col, TrueV)
        cur2 == set_cell(main_headers, cur1, soft_at_col, c.now)
        cur3 == IF updated_at_col # "" THEN set_cell(main_headers, cur2, updated_at_col, c.now) ELSE cur2
    IN  [Log(c1, "get_row_values", "main") EXCEPT
            !.main_headers = main_headers,
            !.updates = Append(@, [tab |-> "main", row |-> c.main_row_num, vals |-> cur3]),
            !.main_action = "soft_delete", !.pc = "parse"]

\* app.py 259-272
AppMainAdd(c) ==
    LET width0 == Len(c.main_headers)
        row0 == [Pad(<<>>, width0) EXCEPT ![index(c.main_headers, main_pk_col)] = c.row_id]
        row1 == patch_row(c.main_headers, row0, c.body.f, main_mapping)
        c1 == IF updated_at_col # ""
              THEN ensure_columns(c, "main", <<updated_at_col>> \o c.main_headers)
              ELSE [c EXCEPT !.ret = c.main_headers]
    IN  IF c1.err # "" THEN c1 ELSE
    LET main_headers == c1.ret
        row2 == IF updated_at_col # ""
                THEN [Pad(row1, Len(main_headers)) EXCEPT
                         ![index(main_headers, updated_at_col)] = c.now]
                ELSE row1
    IN  [append_row(c1, "main", row2) EXCEPT
            !.main_headers = main_headers, !.main_action = "add", !.pc = "parse"]

\* an update branch that adds the row again
AppMainUpdate_AsAdd(c) == AppMainAdd(c)

\* app.py 273-286
AppMainUpdate(c) ==
    LET width0 == Len(c.main_headers)
        current == get_row_values(c, "main", c.main_row_num, width0)
        patched0 == patch_row(c.main_headers, current, c.body.f, main_mapping)
        c0 == Log(c, "get_row_values", "main")
        c1 == IF updated_at_col # ""
              THEN ensure_columns(c0, "main", <<updated_at_col>> \o c.main_headers)
              ELSE [c0 EXCEPT !.ret = c.main_headers]
    IN  IF c1.err # "" THEN c1 ELSE
    LET main_headers == c1.ret
        patched == IF updated_at_col # ""
                   THEN set_cell(main_headers, Pad(patched0, Len(main_headers)), updated_at_col, c.now)
                   ELSE patched0
    IN  [c1 EXCEPT
            !.main_headers = main_headers,
            !.updates = Append(@, [tab |-> "main", row |-> c.main_row_num, vals |-> patched]),
            !.main_action = "update", !.pc = "parse"]

\* app.py 246-286: the main row is soft-deleted, added or updated
AppMain(c) ==
    IF c.main_is_deleted THEN AppMainDelete(c)
    ELSE IF c.main_row_num = 0 THEN AppMainAdd(c)
    ELSE AppMainUpdate(c)

\* a child map that is not scoped to the parent
ExistingForRow_AnyParent(values, fk_idx, uid_idx, row_id) ==
    LET mine == {n \in 1..Len(values) : Strip(Str(Cell(values[n], uid_idx))) # ""}
        uids == {Strip(Str(Cell(values[n], uid_idx))) : n \in mine}
    IN  [u \in uids |->
            1 + (CHOOSE n \in mine :
                    /\ Strip(Str(Cell(values[n], uid_idx))) = u
                    /\ \A m \in mine :
                          Strip(Str(Cell(values[m], uid_idx))) = u => m <= n)]

\* app.py 328-336: UID -> row number of the child rows of row_id (a later row
\* with the same UID replaces an earlier one in the dict)
ExistingForRow(values, fk_idx, uid_idx, row_id) ==
    LET mine == {n \in 1..Len(values) :
                    /\ Strip(Str(Cell(values[n], fk_idx))) = row_id
                    /\ Strip(Str(Cell(values[n], uid_idx))) # ""}
        uids == {Strip(Str(Cell(values[n], uid_idx))) : n \in mine}
    IN  [u \in uids |->
            1 + (CHOOSE n \in mine :
                    /\ Strip(Str(Cell(values[n], uid_idx))) = u
                    /\ \A m \in mine :
                          Strip(Str(Cell(values[m], uid_idx))) = u => m <= n)]

\* a handler that reconciles the children whether or not the list is given
processes_present_Always(body) == TRUE

\* app.py 295: processes_present = processes_key in body
processes_present(body) == body.pkind # "absent"

\* app.py 293-342: the child list is decoded and checked, the child rows of
\* row_id are read, and the updated-at column is ensured
AppParse(c) ==
    LET kind == c.body.pkind IN
    IF ~processes_present(c.body) THEN [c EXCEPT !.pc = "batch"]
    ELSE IF kind = "badjson" THEN Fail(c, "InvalidChildListEncoding", "", <<>>)
    ELSE IF kind \in {"jsonobj", "notlist"} THEN Fail(c, "InvalidChildListType", "", <<>>)
    ELSE IF "UID" \notin Range(c.proc_headers) THEN Fail(c, "MissingUIDColumn", "proc", <<"UID">>)
    ELSE
    LET processes_raw == IF kind \in {"null", "blank"} THEN <<>> ELSE c.body.plist
        processes == SelectSeq(processes_raw, LAMBDA p : p.obj)
        proc_fk_idx == index(c.proc_headers, proc_fk_col)
        proc_uid_idx == index(c.proc_headers, "UID")
        c1 == [Log(c, "read_range", "proc") EXCEPT
                  !.processes = processes,
                  !.existing_for_row =
                      ExistingForRow(c.rows["proc"], proc_fk_idx, proc_uid_idx, c.row_id)]
        c2 == IF updated_at_col # ""
              THEN ensure_columns(c1, "proc", <<updated_at_col>> \o c.proc_headers)
              ELSE [c1 EXCEPT !.ret = c.proc_headers]
    IN  IF c2.err # "" THEN c2 ELSE
        [c2 EXCEPT !.proc_headers = c2.ret, !.i = 1, !.pc = "child"]

\* app.py 368-379 and 391-401: the markers of a child row
ChildMarkers(c, row, p_is_deleted) ==
    LET c1 == IF p_is_deleted
              THEN ensure_columns(c, "proc", <<soft_col, soft_at_col>> \o c.proc_headers)
              ELSE [c EXCEPT !.ret = c.proc_headers]
    IN  IF c1.err # "" THEN [c |-> c1, row |-> row] ELSE
    LET proc_headers == c1.ret
        r0 == IF p_is_deleted THEN Pad(row, Len(proc_headers)) ELSE row
        r1 == IF p_is_deleted THEN set_cell(proc_headers, r0, soft_col, TrueV) ELSE r0
        r2 == IF p_is_deleted THEN set_cell(proc_headers, r1, soft_at_col, c.now) ELSE r1
        r3 == IF updated_at_col # "" THEN set_cell(proc_headers, r2, updated_at_col, c.now) ELSE r2
    IN  [c |-> [c1 EXCEPT !.proc_headers = proc_headers], row |-> r3]

\* a UID read without the strip
child_uid_Unstripped(p) == IF "UID" \in DOMAIN p THEN Str(p["UID"]) ELSE ""

\* app.py 345: uid = str(p.get("UID", "")).strip()
child_uid(p) == IF "UID" \in DOMAIN p THEN Strip(Str(p["UID"])) ELSE ""

\* app.py 344-404: one iteration of the loop over the incoming children
AppChild(c) ==
    IF c.i > Len(c.processes) THEN [c EXCEPT !.pc = "removed"] ELSE
    LET p == c.processes[c.i].kv IN
    IF child_uid(p) = ""
    THEN Fail(c, "MissingChildKey", "", <<>>)
    ELSE
    LET uid == child_uid(p)
        p_is_deleted == get_flag(p, delete_flag_keys)
        supplied == IF "_proc_row_id" \in DOMAIN p THEN Strip(Str(p["_proc_row_id"])) ELSE ""
        proc_row_pk == IF supplied = "" THEN c.ids[c.i] ELSE supplied
        payload_p == [k \in DOMAIN p \cup {"row_id", "UID", "_proc_row_id"} |->
                         CASE k = "row_id" -> c.row_id
                           [] k = "UID" -> uid
                           [] k = "_proc_row_id" -> proc_row_pk
                           [] OTHER -> p[k]]
        c0 == [c EXCEPT !.incoming_uids = Append(@, uid), !.i = @ + 1]
        width == Len(c.proc_headers)
    IN  IF uid \in DOMAIN c.existing_for_row
        THEN LET rnum == c.existing_for_row[uid]
                 current == get_row_values(c0, "proc", rnum, width)
                 patched == patch_row(c.proc_headers, current, payload_p, proc_mapping)
                 m == ChildMarkers(Log(c0, "get_row_values", "proc"), patched, p_is_deleted)
             IN  IF m.c.err # "" THEN m.c ELSE
                 [m.c EXCEPT
                     !.updates = Append(@, [tab |-> "proc", row |-> rnum, vals |-> m.row]),
                     !.updated = @ + 1]
        ELSE LET row0 == [Pad(<<>>, width) EXCEPT
                             ![index(c.proc_headers, proc_fk_col)] = c.row_id]
                 row1 == [row0 EXCEPT ![index(c.proc_headers, proc_pk_col)] = proc_row_pk]
                 row2 == patch_row(c.proc_headers, row1, payload_p, proc_mapping)
                 m == ChildMarkers(c0, row2, p_is_deleted)
             IN  IF m.c.err # "" THEN m.c ELSE
                 [append_row(m.c, "proc", m.row) EXCEPT !.added = @ + 1]

RECURSIVE RemovedUpdates(_, _, _)
\* app.py 410-422: one staged range per removed UID
RemovedUpdates(c, removed, proc_headers) ==
    IF removed = {} THEN <<>>
    ELSE LET uid == CHOOSE u \in removed :
                       \A v \in removed : c.existing_for_row[u] <= c.existing_for_row[v]
             rnum == c.existing_for_row[uid]
             cur0 == get_row_values(c, "proc", rnum, Len(proc_headers))
             cur1 == set_cell(proc_headers, cur0, soft_col, TrueV)
             cur2 == set_cell(proc_headers, cur1, soft_at_col, c.now)
             cur3 == IF updated_at_col # ""
                     THEN set_cell(proc_headers, cur2, updated_at_col, c.now) ELSE cur2
         IN  <<[tab |-> "proc", row |-> rnum, vals |-> cur3]>>
             \o RemovedUpdates(c, removed \ {uid}, proc_headers)

RECURSIVE LogN(_, _, _, _)
LogN(c, n, op, tab) == IF n = 0 THEN c ELSE LogN(Log(c, op, tab), n - 1, op, tab)

\* app.py 406-422: inferred deletes, existing - incoming
AppRemoved(c) ==
    LET removed == DOMAIN c.existing_for_row \ Range(c.incoming_uids) IN
    IF removed = {} THEN [c EXCEPT !.pc = "batch"] ELSE
    LET c1 == IF AUTO_ADD_COLUMNS
              THEN ensure_columns(c, "proc", <<soft_col, soft_at_col>> \o c.proc_headers)
              ELSE [c EXCEPT !.ret = c.proc_headers]
        staged == RemovedUpdates(c1, removed, c1.ret)
    IN  [LogN(c1, Len(staged), "get_row_values", "proc") EXCEPT
            !.proc_headers = c1.ret,
            !.updates = @ \o staged,
            !.deleted = @ + Len(staged),
            !.pc = "batch"]

\* a batch that carries only the first staged range
AppBatch_FirstOnly(c) ==
    IF c.updates # <<>>
    THEN [batch_update(c, <<c.updates[1]>>) EXCEPT !.pc = "done"]
    ELSE [c EXCEPT !.pc = "done"]

\* app.py 424-434
AppBatch(c) ==
    IF c.updates # <<>>
    THEN [batch_update(c, c.updates) EXCEPT !.pc = "done"]
    ELSE [c EXCEPT !.pc = "done"]

\* one store-call group of the handler
AppStep(c) ==
    CASE c.pc = "validate" -> AppValidate(c)
      [] c.pc = "locate" -> AppLocate(c)
      [] c.pc = "main" -> AppMain(c)
      [] c.pc = "parse" -> AppParse(c)
      [] c.pc = "child" -> AppChild(c)
      [] c.pc = "removed" -> AppRemoved(c)
      [] c.pc = "batch" -> AppBatch(c)

RECURSIVE AppRun(_)
\* the handler run from c to its return or its HTTPException
AppRun(c) == IF c.pc = "done" THEN c ELSE AppRun(AppStep(c))

\* ------------------------------------------------------------------ main.py: publish
\* cfg of main.py (columns.yaml), with the code's defaults where it has them.
row_key_payload == "RowID"
main_key_col == "ID"
sub_key_col == "UID"
sub_fk_col == "ID"
proc_id_payload_key == "UID"
main_cfg_mapping == << <<"RowID", "ID">>, <<"A", "A">>, <<"B", "B">> >>
sub_cfg_mapping == << <<"ID", "ID">>, <<"UID", "UID">>, <<"P", "P">> >>
main_cfg_updated_at_col == "updated_at"
sub_cfg_updated_at_col == "updated_at"
del_col == "is_deleted"
del_at_col == "deleted_at"

RECURSIVE Reverse(_)
Reverse(seq) == IF seq = <<>> THEN <<>> ELSE Append(Reverse(Tail(seq)), seq[1])

RECURSIVE DedupFrom(_, _, _)
DedupFrom(seq, i, out) ==
    IF i > Len(seq) THEN out
    ELSE DedupFrom(seq, i + 1, IF seq[i] \in Range(out) THEN out ELSE Append(out, seq[i]))

\* list(set(seq)): the distinct elements, in the order the interpreter's string
\* hashing gives them (order is one of the two the model draws at start)
list_set(seq, order) ==
    IF order = 0 THEN DedupFrom(seq, 1, <<>>) ELSE Reverse(DedupFrom(seq, 1, <<>>))

\* _ensure_headers(svc, tab, required); the headers returned are c.ret
ensure_headers(c, tab, required) ==
    LET headers == c.hdr[tab]
        c0 == Log(c, "get_headers", tab)
        missing == SelectSeq(required, LAMBDA col : col \notin Range(headers))
    IN  IF headers = <<>>
        THEN [write_header(c0, tab, required) EXCEPT !.ret = required]
        ELSE IF missing # <<>> /\ ~AUTO_ADD_COLUMNS
             THEN Fail(c0, "SchemaMismatch", tab, missing)
             ELSE IF missing # <<>>
                  THEN [write_header(c0, tab, headers \o missing) EXCEPT !.ret = headers \o missing]
                  ELSE [c0 EXCEPT !.ret = headers]

\* _find_row_by_key(svc, tab, headers, key_col, key_value), 0 for None
find_row_by_key(c, tab, headers, key_col, key_value) ==
    IF key_col \notin Range(headers) THEN 0
    ELSE FirstMatch(c.rows[tab], index(headers, key_col), key_value)

RECURSIVE row_from(_, _, _, _, _)
row_from(i, headers, values, payload, mapping) ==
    IF i > Len(mapping) THEN values
    ELSE LET payload_key == mapping[i][1]
             sheet_col == mapping[i][2]
             v == IF payload_key \in DOMAIN payload THEN payload[payload_key] ELSE ""
         IN  IF sheet_col \notin Range(headers)
             THEN row_from(i + 1, headers, values, payload, mapping)
             ELSE row_from(i + 1, headers,
                           [values EXCEPT ![index(headers, sheet_col)] = IF v = None THEN "" ELSE v],
                           payload, mapping)

\* _row_to_values(headers, payload, mapping)
row_to_values(headers, payload, mapping) ==
    row_from(1, headers, Pad(<<>>, Len(headers)), payload, mapping)

\* _is_delete_snapshot(main_obj, processes); the snapshot holds the mapped keys
\* of the body and the row id under row_key_payload
is_delete_snapshot(body, row_id, no_processes) ==
    LET keys == (Range(MapKeys(main_cfg_mapping)) \cup {row_key_payload}) \ {"RowID"}
        value(k) == IF k = row_key_payload THEN row_id
                    ELSE IF k \in DOMAIN body THEN body[k] ELSE None
        main_empty == \A k \in keys : value(k) = None \/ Strip(Str(value(k))) = ""
    IN  main_empty /\ no_processes

\* _col_index_map(headers)[col]: a later column of the same name replaces an earlier one
col_index(headers, col) ==
    CHOOSE i \in 1..Len(headers) : headers[i] = col /\ \A j \in (i + 1)..Len(headers) : headers[j] # col

\* main.py 223-249: the checks of the body, the main header, the main row
MainPyValidate(c) ==
    LET body == c.body.f
        row_id == Strip(Str(IF row_key_payload \in DOMAIN body THEN body[row_key_payload] ELSE ""))
        kind == c.body.pkind
    IN
    IF row_id = "" THEN Fail(c, "MissingKey", "", <<>>)
    ELSE IF kind \notin {"absent", "null", "list"} THEN Fail(c, "InvalidChildListType", "", <<>>)
    ELSE
    LET processes == IF kind = "list" THEN c.body.plist ELSE <<>>
        main_required == list_set(MapValues(main_cfg_mapping), hashOrder)
                         \o (IF main_cfg_updated_at_col # "" THEN <<main_cfg_updated_at_col>> ELSE <<>>)
        c1 == ensure_headers([c EXCEPT !.row_id = row_id, !.processes = processes],
                             "main", main_required)
    IN  IF c1.err # "" THEN c1 ELSE
        [(IF main_key_col \in Range(c1.ret) THEN Log(c1, "read_range", "main") ELSE c1) EXCEPT
            !.main_headers = c1.ret,
            !.main_row_num = find_row_by_key(c1, "main", c1.ret, main_key_col, row_id),
            !.main_is_deleted = is_delete_snapshot(body, row_id, processes = <<>>),
            !.pc = "main"]

\* main.py 253-274
MainPyDelete(c) ==
    LET c1 == ensure_headers(c, "main", <<del_col, del_at_col>> \o c.main_headers)
    IN  IF c1.err # "" THEN c1 ELSE
    IF c.main_row_num = 0
    THEN [c1 EXCEPT !.main_headers = c1.ret, !.main_action = "noop_delete", !.pc = "parse"]
    ELSE
    LET main_headers == c1.ret
        normalized == get_row_values(c1, "main", c.main_row_num, Len(main_headers))
        n1 == [normalized EXCEPT ![col_index(main_headers, del_col)] = TrueV]
        n2 == [n1 EXCEPT ![col_index(main_headers, del_at_col)] = c.now]
    IN  [Log(c1, "read_row", "main") EXCEPT
            !.main_headers = main_headers,
            !.updates = Append(@, [tab |-> "main", row |-> c.main_row_num, vals |-> n2]),
            !.main_action = "soft_delete", !.pc = "parse"]

\* main.py 276-295
MainPyUpsert(c) ==
    LET row0 == row_to_values(c.main_headers, c.body.f, main_cfg_mapping)
        row_values == IF main_cfg_updated_at_col # "" /\ main_cfg_updated_at_col \in Range(c.main_headers)
                      THEN [row0 EXCEPT ![index(c.main_headers, main_cfg_updated_at_col)] = c.now]
                      ELSE row0
    IN  IF c.main_row_num = 0
        THEN [append_row(c, "main", row_values) EXCEPT !.main_action = "add", !.pc = "parse"]
        ELSE [c EXCEPT
                 !.updates = Append(@, [tab |-> "main", row |-> c.main_row_num, vals |-> row_values]),
                 !.main_action = "update", !.pc = "parse"]

\* main.py 253-295
MainPyMain(c) == IF c.main_is_deleted THEN MainPyDelete(c) ELSE MainPyUpsert(c)

\* main.py 297-325: the header of the sub tab and the child rows of row_id
MainPySub(c) ==
    LET sub_required == list_set(MapValues(sub_cfg_mapping), hashOrder)
                        \o <<sub_fk_col, sub_key_col>>
                        \o (IF sub_cfg_updated_at_col # "" THEN <<sub_cfg_updated_at_col>> ELSE <<>>)
        c1 == ensure_headers(c, "proc", sub_required)
    IN  IF c1.err # "" THEN c1 ELSE
    LET sub_headers == c1.ret
        existing == IF sub_fk_col \in Range(sub_headers) /\ sub_key_col \in Range(sub_headers)
                    THEN ExistingForRow(c1.rows["proc"], index(sub_headers, sub_fk_col),
                                        index(sub_headers, sub_key_col), c.row_id)
                    ELSE <<>>
    IN  [Log(c1, "read_range", "proc") EXCEPT
            !.proc_headers = sub_headers, !.existing_for_row = existing,
            !.i = 1, !.pc = "child"]

\* main.py 327-356: one iteration of the loop over the incoming children
MainPyChild(c) ==
    IF c.i > Len(c.processes) THEN [c EXCEPT !.pc = "removed"] ELSE
    LET proc == c.processes[c.i]
        c0 == [c EXCEPT !.i = @ + 1]
        proc_uid == Strip(Str(IF proc_id_payload_key \in DOMAIN proc.kv
                              THEN proc.kv[proc_id_payload_key] ELSE ""))
    IN
    IF ~proc.obj \/ proc_uid = "" THEN c0 ELSE
    LET proc_with_fk == [k \in DOMAIN proc.kv \cup {sub_fk_col} |->
                            IF k = sub_fk_col THEN c.row_id ELSE proc.kv[k]]
        row0 == row_to_values(c.proc_headers, proc_with_fk, sub_cfg_mapping)
        proc_row_vals ==
            IF sub_cfg_updated_at_col # "" /\ sub_cfg_updated_at_col \in Range(c.proc_headers)
            THEN [row0 EXCEPT ![index(c.proc_headers, sub_cfg_updated_at_col)] = c.now]
            ELSE row0
        c1 == [c0 EXCEPT !.incoming_uids = Append(@, proc_uid)]
    IN  IF proc_uid \in DOMAIN c.existing_for_row
        THEN [c1 EXCEPT
                 !.updates = Append(@, [tab |-> "proc", row |-> c.existing_for_row[proc_uid],
                                        vals |-> proc_row_vals]),
                 !.updated = @ + 1]
        ELSE [append_row(c1, "proc", proc_row_vals) EXCEPT !.added = @ + 1]

RECURSIVE SubRemovedUpdates(_, _, _)
\* main.py 367-377: one staged range per removed process_uid
SubRemovedUpdates(c, removed, sub_headers) ==
    IF removed = {} THEN <<>>
    ELSE LET proc_uid == CHOOSE u \in removed :
                            \A v \in removed : c.existing_for_row[u] <= c.existing_for_row[v]
             rnum == c.existing_for_row[proc_uid]
             normalized == get_row_values(c, "proc", rnum, Len(sub_headers))
             n1 == [normalized EXCEPT ![col_index(sub_headers, del_col)] = TrueV]
             n2 == [n1 EXCEPT ![col_index(sub_headers, del_at_col)] = c.now]
         IN  <<[tab |-> "proc", row |-> rnum, vals |-> n2]>>
             \o SubRemovedUpdates(c, removed \ {proc_uid}, sub_headers)

\* main.py 358-377: processes present in the sheet and absent in incoming
MainPyRemoved(c) ==
    LET removed == DOMAIN c.existing_for_row \ Range(c.incoming_uids) IN
    IF removed = {} THEN [c EXCEPT !.pc = "batch"] ELSE
    LET c1 == ensure_headers(c, "proc", <<del_col, del_at_col>> \o c.proc_headers)
    IN  IF c1.err # "" THEN c1 ELSE
    LET staged == SubRemovedUpdates(c1, removed, c1.ret)
    IN  [LogN(c1, Len(staged), "read_row", "proc") EXCEPT
            !.proc_headers = c1.ret,
            !.updates = @ \o staged,
            !.deleted = @ + Len(staged),
            !.pc = "batch"]

\* one store-call group of main.py's handler
MainPyStep(c) ==
    CASE c.pc = "validate" -> MainPyValidate(c)
      [] c.pc = "main" -> MainPyMain(c)
      [] c.pc = "parse" -> MainPySub(c)
      [] c.pc = "child" -> MainPyChild(c)
      [] c.pc = "removed" -> MainPyRemoved(c)
      [] c.pc = "batch" -> AppBatch(c)

RECURSIVE MainPyRun(_)
\* main.py's handler run from c to its return or its HTTPException
MainPyRun(c) == IF c.pc = "done" THEN c ELSE MainPyRun(MainPyStep(c))

\* ------------------------------------------------------------------ requests
\* the dict with the given (key, value) pairs
Dict(pairs) == [k \in {p[1] : p \in pairs} |-> (CHOOSE p \in pairs : p[1] = k)[2]]

\* the scalar fields of a body whose row id travels under key_field
Fields(key_field) ==
    {Dict({<<key_field, k>>} \cup fs) :
        k \in {"k1", "k2"},
        fs \in {{<<"A", "1">>, <<"B", "2">>}, {<<"A", "9">>}, {},
                {<<"is_deleted", TrueV>>}}}

\* bodies at the edges of the checks: no row id, a blank one, a padded one, a
\* delete flag that reads as false, a null field
EdgeFields(key_field) ==
    {Dict({<<"A", "1">>}),
     Dict({<<key_field, " ">>, <<"A", "1">>}),
     Dict({<<key_field, " k1">>, <<"A", "9">>}),
     Dict({<<key_field, "k1">>, <<"is_deleted", "no">>}),
     Dict({<<key_field, "k1">>, <<"A", "9">>, <<"B", None>>})}

Child(pairs) == [obj |-> TRUE, kv |-> Dict(pairs)]
NotADict == [obj |-> FALSE, kv |-> Dict({})]

ChildLists ==
    {<<>>,
     <<Child({<<"UID", "u1">>, <<"P", "p1">>})>>,
     <<Child({<<"UID", "u2">>, <<"P", "p1">>})>>,
     <<Child({<<"UID", "u1">>})>>,
     <<Child({<<"UID", "u1">>, <<"P", "p1">>}), Child({<<"UID", "u2">>, <<"P", "p2">>})>>,
     <<Child({<<"UID", "u1">>, <<"P", "p1">>}), Child({<<"UID", "u1">>, <<"P", "p2">>})>>,
     <<Child({<<"UID", "u1">>, <<"is_deleted", TrueV>>})>>,
     <<Child({<<"UID", "u1">>, <<"_proc_row_id", "R1">>})>>,
     <<Child({<<"P", "p1">>})>>,
     <<Child({<<"P", "p1">>}), Child({<<"UID", "u1">>, <<"P", "p2">>})>>,
     <<Child({<<"UID", "u2">>, <<"P", "p1">>}), Child({<<"UID", " ">>})>>,
     <<NotADict, Child({<<"UID", "u1">>, <<"P", "p2">>})>>}

Body(f, pkind, plist) == [f |-> f, pkind |-> pkind, plist |-> plist]

\* how the "processes" field can arrive
ProcessesFields ==
    {<<"list", l>> : l \in ChildLists}
    \cup {<<"json", <<Child({<<"UID", "u1">>, <<"P", "p1">>})>> >>,
          <<"null", <<>> >>, <<"blank", <<>> >>, <<"badjson", <<>> >>,
          <<"jsonobj", <<>> >>, <<"notlist", <<>> >>}

\* gen_alnum_id(7): the values the generator can return
GenIds == {"G1", "G2"}

\* the results of the calls of gen_alnum_id in one request, one per child of the list
IdDraws(body) == [1..Len(body.plist) -> GenIds]

\* ------------------------------------------------------------------ the service
NoBody == Body(Dict({}), "absent", <<>>)

\* what the handler returns (ok) or raises (a 400 with its detail), with the
\* store calls it made and the range writes it had staged when it ended
Response(c) ==
    [ok |-> c.err = "", status |-> IF c.err = "" THEN 200 ELSE 400,
     err |-> c.err, detail |-> c.detail, row_id |-> c.row_id,
     main_action |-> IF c.err = "" THEN c.main_action ELSE "",
     added |-> IF c.err = "" THEN c.added ELSE 0,
     updated |-> IF c.err = "" THEN c.updated ELSE 0,
     deleted |-> IF c.err = "" THEN c.deleted ELSE 0,
     ops |-> c.ops, updates |-> c.updates]

NoResponse ==
    [Response(NewCtx(<<>>, <<>>, NoBody, <<>>, "")) EXCEPT !.ok = FALSE, !.status = 0]

\* the worker processes of the server and a worker that serves no request
Procs == {1, 2}
Idle == [pc |-> "idle"]

\* the record of a call of the schema helper
NoCall ==
    [fn |-> "", tab |-> "", required |-> <<>>, before |-> <<>>, ret |-> <<>>,
     err |-> "", detail |-> <<"", <<>>>>, ops |-> <<>>]

Tabs == {"main", "proc"}
EmptyHeaders == [t \in Tabs |-> <<>>]
MinHeaders ==
    [t \in Tabs |->
        IF t = "main" THEN <<"ID", "A", "B", "updated_at">>
        ELSE <<"ID", "Row ID", "UID", "P", "updated_at">>]
FullHeaders ==
    [t \in Tabs |-> MinHeaders[t] \o <<"is_deleted", "deleted_at">>]

\* The requests served before the window the model explores in full: at
\* clock -2 a parent with two children is published, at clock -1 one of a few
\* follow-ups (its soft delete, a shorter child list, a delete-flagged
\* publish of another key that carries a child).
Warmup(key_field, n) ==
    IF n = -2
    THEN {Body(Dict({<<key_field, "k1">>, <<"A", "1">>, <<"B", "2">>}), "list",
               <<Child({<<"UID", "u1">>, <<"P", "p1">>}), Child({<<"UID", "u2">>, <<"P", "p2">>})>>)}
    ELSE {Body(Dict({<<key_field, "k1">>, <<"is_deleted", TrueV>>}), "absent", <<>>),
          Body(Dict({<<key_field, "k1">>, <<"A", "1">>}), "list",
               <<Child({<<"UID", "u1">>, <<"P", "p1">>})>>),
          Body(Dict({<<key_field, "k2">>, <<"is_deleted", TrueV>>}), "list",
               <<Child({<<"UID", "u1">>, <<"P", "p1">>})>>)}

Bodies(key_field) ==
    {Body(f, "absent", <<>>) : f \in Fields(key_field) \cup EdgeFields(key_field)}
    \cup {Body(Dict({<<key_field, "k1">>, <<"A", "1">>}), pf[1], pf[2]) : pf \in ProcessesFields}
    \cup {Body(Dict({<<key_field, "k2">>}), "list", l) :
             l \in {<<>>, <<Child({<<"UID", "u1">>, <<"P", "p1">>})>>}}
    \cup {Body(Dict({<<"A", "1">>}), "badjson", <<>>),
          Body(Dict({<<key_field, "k1">>}), "list", <<>>)}
    \cup Warmup(key_field, -2) \cup Warmup(key_field, -1)

\* the bodies the two handlers are sent
AppBodies == Bodies("row_id")
MainPyBodies == Bodies(row_key_payload)
AppWarmup == [n \in {-2, -1} |-> Warmup("row_id", n)]
MainPyWarmup == [n \in {-2, -1} |-> Warmup(row_key_payload, n)]

\* The service starts on a sheet with no data rows whose header rows are empty
\* or were prepared by hand.  A behaviour serves the warm-up requests from its
\* first clock value on, and then up to MaxClock requests of any kind.
Init ==
    /\ variant \in {"app", "main"}
    /\ AUTO_ADD_COLUMNS \in BOOLEAN
    /\ hashOrder \in {0, 1}
    /\ hdr \in {EmptyHeaders, MinHeaders, FullHeaders}
    /\ (hdr = FullHeaders) => ~AUTO_ADD_COLUMNS
    /\ (hashOrder = 1) => (variant = "main" /\ hdr = EmptyHeaders)
    /\ rows = [t \in Tabs |-> <<>>]
    /\ clock \in {-2, 0}
    /\ req = NoBody
    /\ resp = NoResponse
    /\ inflight = [p \in Procs |-> Idle]
    /\ call = NoCall

\* POST /publish served by app.py
AppPublish ==
    /\ variant = "app"
    /\ clock < MaxClock
    /\ \E body \in (IF clock < 0 THEN AppWarmup[clock] ELSE AppBodies) : \E ids \in IdDraws(body) :
          LET c == AppRun(NewCtx(hdr, rows, body, ids, TS(clock + 1))) IN
          /\ hdr' = c.hdr
          /\ rows' = c.rows
          /\ req' = body
          /\ resp' = Response(c)
    /\ clock' = clock + 1
    /\ UNCHANGED <<variant, AUTO_ADD_COLUMNS, hashOrder, inflight, call>>

\* POST /publish served by main.py
MainPyPublish ==
    /\ variant = "main"
    /\ clock < MaxClock
    /\ \E body \in (IF clock < 0 THEN MainPyWarmup[clock] ELSE MainPyBodies) :
          LET c == MainPyRun(NewCtx(hdr, rows, body, <<>>, TS(clock + 1))) IN
          /\ hdr' = c.hdr
          /\ rows' = c.rows
          /\ req' = body
          /\ resp' = Response(c)
    /\ clock' = clock + 1
    /\ UNCHANGED <<variant, AUTO_ADD_COLUMNS, hashOrder, inflight, call>>

Next == AppPublish \/ MainPyPublish

Spec == Init /\ [][Next]_vars

\* ------------------------------------------------------------------ the schema helper alone
MaxCalls == 2
MaxRequired == 3
ColumnNames == {"ID", "A", "B"}

\* the lists of required columns a configuration can produce
RequiredLists == UNION {[1..n -> ColumnNames] : n \in 0..MaxRequired}

\* the header rows the tab starts with
HeaderSamples == {<<>>, <<"ID">>, <<"B", "ID">>}

InitEnsure ==
    /\ variant \in {"app", "main"}
    /\ AUTO_ADD_COLUMNS \in BOOLEAN
    /\ hashOrder = 0
    /\ hdr \in {[t \in Tabs |-> IF t = "main" THEN h ELSE <<>>] : h \in HeaderSamples}
    /\ rows = [t \in Tabs |-> <<>>]
    /\ clock = 0
    /\ req = NoBody
    /\ resp = NoResponse
    /\ inflight = [p \in Procs |-> Idle]
    /\ call = NoCall

CallRecord(fn, required, before, c) ==
    [fn |-> fn, tab |-> "main", required |-> required, before |-> before,
     ret |-> IF c.err = "" THEN c.ret ELSE <<>>,
     err |-> c.err, detail |-> c.detail, ops |-> c.ops]

\* app.py: ensure_columns(svc, "main", required)
EnsureColumns ==
    /\ variant = "app"
    /\ clock < MaxCalls
    /\ \E required \in RequiredLists :
          LET c == ensure_columns(NewCtx(hdr, rows, NoBody, <<>>, ""), "main", required) IN
          /\ hdr' = c.hdr
          /\ call' = CallRecord("ensure_columns", required, hdr["main"], c)
    /\ clock' = clock + 1
    /\ UNCHANGED <<variant, AUTO_ADD_COLUMNS, hashOrder, rows, req, resp, inflight>>

\* main.py: _ensure_headers(svc, "main", required)
EnsureHeaders ==
    /\ variant = "main"
    /\ clock < MaxCalls
    /\ \E required \in RequiredLists :
          LET c == ensure_headers(NewCtx(hdr, rows, NoBody, <<>>, ""), "main", required) IN
          /\ hdr' = c.hdr
          /\ call' = CallRecord("_ensure_headers", required, hdr["main"], c)
    /\ clock' = clock + 1
    /\ UNCHANGED <<variant, AUTO_ADD_COLUMNS, hashOrder, rows, req, resp, inflight>>

NextEnsure == EnsureColumns \/ EnsureHeaders

SpecEnsure == InitEnsure /\ [][NextEnsure]_vars

\* ------------------------------------------------------------------ the delete flag alone
MaxKeys == 2
FlagKeyNames == {"is_deleted", "deleted"}

\* payload.delete_flag_keys of a configuration
FlagKeyLists == UNION {[1..n -> FlagKeyNames] : n \in 1..MaxKeys}

\* what a payload can carry under a key
FlagValues == {TrueV, FalseV, None, "YES", " yes ", "y", "1", "no", "0"}

\* the payloads: each key absent or carrying one of the values
FlagObjects ==
    UNION {[ks -> FlagValues] : ks \in SUBSET FlagKeyNames}

InitFlag ==
    /\ variant = "app"
    /\ AUTO_ADD_COLUMNS = FALSE
    /\ hashOrder = 0
    /\ hdr = EmptyHeaders
    /\ rows = [t \in Tabs |-> <<>>]
    /\ clock = 0
    /\ req = NoBody
    /\ resp = NoResponse
    /\ inflight = [p \in Procs |-> Idle]
    /\ call = NoCall

\* app.py: get_flag(obj, keys)
GetFlag ==
    /\ \E keys \in FlagKeyLists : \E obj \in FlagObjects :
          call' = [fn |-> "get_flag", keys |-> keys, obj |-> obj, ret |-> get_flag(obj, keys)]
    /\ UNCHANGED <<variant, AUTO_ADD_COLUMNS, hashOrder, hdr, rows, clock, req, resp, inflight>>

NextFlag == GetFlag

SpecFlag == InitFlag /\ [][NextFlag]_vars

\* ------------------------------------------------------------------ two workers, one sheet
\* Two server processes of app.py share the spreadsheet. A handler holds no
\* lock and every store call is one HTTP round trip, so the requests of two
\* workers interleave between store-call groups.
MaxStarts == 4

ConcBodies ==
    {Body(Dict({<<"row_id", "k1">>, <<"A", "9">>}), "absent", <<>>),
     Body(Dict({<<"row_id", "k1">>, <<"B", "3">>}), "list",
          <<Child({<<"UID", "u1">>, <<"P", "p1">>})>>)}

InitConc ==
    /\ variant = "app"
    /\ AUTO_ADD_COLUMNS = FALSE
    /\ hashOrder = 0
    /\ hdr = FullHeaders
    /\ rows = [t \in Tabs |-> <<>>]
    /\ clock = 0
    /\ req = NoBody
    /\ resp = NoResponse
    /\ inflight = [p \in Procs |-> Idle]
    /\ call = NoCall

\* the locals of a handler between two steps: the sheet is not among them
Locals(c) == [c EXCEPT !.hdr = <<>>, !.rows = <<>>]

\* a worker accepts a request
ConcStart(p) ==
    /\ inflight[p] = Idle
    /\ clock < MaxStarts
    /\ \E body \in ConcBodies :
          inflight' = [inflight EXCEPT
                          ![p] = NewCtx(<<>>, <<>>, body, <<"G1">>, TS(clock + 1))]
    /\ clock' = clock + 1
    /\ UNCHANGED <<variant, AUTO_ADD_COLUMNS, hashOrder, hdr, rows, req, resp, call>>

\* a worker runs its handler up to the end of the next store-call group
ConcStep(p) ==
    /\ inflight[p].pc \notin {"idle", "done"}
    /\ LET c == AppStep([inflight[p] EXCEPT !.hdr = hdr, !.rows = rows]) IN
       /\ hdr' = c.hdr
       /\ rows' = c.rows
       /\ inflight' = [inflight EXCEPT ![p] = Locals(c)]
    /\ UNCHANGED <<variant, AUTO_ADD_COLUMNS, hashOrder, clock, req, resp, call>>

\* a worker sends its response
ConcReturn(p) ==
    /\ inflight[p].pc = "done"
    /\ req' = inflight[p].body
    /\ resp' = Response(inflight[p])
    /\ inflight' = [inflight EXCEPT ![p] = Idle]
    /\ UNCHANGED <<variant, AUTO_ADD_COLUMNS, hashOrder, hdr, rows, clock, call>>

NextConc == \E p \in Procs : ConcStart(p) \/ ConcStep(p) \/ ConcReturn(p)

SpecConc == InitConc /\ [][NextConc]_vars

\* ------------------------------------------------------------------ properties
\* a request was served in this step
Served == clock' = clock + 1

\* the cell of a stored row under column col of header h
At(h, row, col) == IF col \in Range(h) THEN Cell(row, index(h, col)) ELSE ""

\* the payload field that carries the key
KeyField(v) == IF v = "app" THEN "row_id" ELSE row_key_payload

\* the key a body asks for, as the handler reads it
ReqKey(v, body) ==
    IF KeyField(v) \in DOMAIN body.f THEN Strip(Str(body.f[KeyField(v)])) ELSE ""

\* the data rows of the main tab whose key cell reads k
MainRowsOf(h, rws, k) ==
    {n \in 1..Len(rws["main"]) : Strip(Str(At(h["main"], rws["main"][n], "ID"))) = k}

\* the data rows of the child tab that belong to parent k
ChildRowsOf(h, rws, k) ==
    {n \in 1..Len(rws["proc"]) : Strip(Str(At(h["proc"], rws["proc"][n], "ID"))) = k}

ChildUid(h, rws, n) == Strip(Str(At(h["proc"], rws["proc"][n], "UID")))

\* the row of the child tab that the handlers take for (k, u): the last one
ChildRowOf(h, rws, k, u) ==
    LET hits == {n \in ChildRowsOf(h, rws, k) : ChildUid(h, rws, n) = u}
    IN  CHOOSE n \in hits : \A m \in hits : m <= n

\* the payload asks for the deletion of its main row: by a delete flag
\* (app.py), by being an empty snapshot (main.py)
DeleteIntent(v, body) ==
    IF v = "app" THEN get_flag(body.f, delete_flag_keys)
    ELSE is_delete_snapshot(body.f, ReqKey(v, body),
                            body.pkind \in {"absent", "null"} \/ body.plist = <<>>)

NoDuplicateKeys ==
    \A i, j \in 1..Len(rows["main"]) :
        i # j => Strip(Str(At(hdr["main"], rows["main"][i], "ID")))
                 # Strip(Str(At(hdr["main"], rows["main"][j], "ID")))

\* C1 as stated: the main tab never holds two rows with one key, and every
\* successful publish for a key that no row carries reports "add" and leaves
\* exactly one row with that key.
C1_AsStated ==
    [][(Served /\ resp'.ok /\ MainRowsOf(hdr, rows, ReqKey(variant, req')) = {})
         => /\ resp'.main_action = "add"
            /\ Cardinality(MainRowsOf(hdr', rows', ReqKey(variant, req'))) = 1
            /\ NoDuplicateKeys']_vars

\* C1 (amended): the main tab never holds two rows with one key; a successful
\* publish without delete intent for a key that no row carries reports "add"
\* and leaves exactly one row with that key, and one with delete intent
\* reports a delete action and adds no row.
C1_UniqueKeys ==
    /\ []NoDuplicateKeys
    /\ [][(Served /\ resp'.ok /\ MainRowsOf(hdr, rows, ReqKey(variant, req')) = {})
            => IF DeleteIntent(variant, req')
               THEN /\ resp'.main_action \in {"soft_delete", "noop_delete"}
                    /\ rows'["main"] = rows["main"]
               ELSE /\ resp'.main_action = "add"
                    /\ Cardinality(MainRowsOf(hdr', rows', ReqKey(variant, req'))) = 1]_vars

\* a never-seen key was published next to the rows of another key
C1_Witness ==
    /\ resp.ok /\ resp.main_action = "add"
    /\ Len(rows["main"]) = 2
    /\ Cardinality(MainRowsOf(hdr, rows, ReqKey(variant, req))) = 1

\* the UIDs of the child objects of a body
IncomingUids(body) ==
    {Strip(Str(body.plist[i].kv["UID"])) :
        i \in {j \in 1..Len(body.plist) : body.plist[j].obj /\ "UID" \in DOMAIN body.plist[j].kv}}

\* the child rows recorded for parent k under a non-blank UID that a body omits
RemovedRows(h, rws, k, body) ==
    {n \in ChildRowsOf(h, rws, k) :
        ChildUid(h, rws, n) # "" /\ ChildUid(h, rws, n) \notin IncomingUids(body)}

UidsOf(h, rws, ns) == {ChildUid(h, rws, n) : n \in ns}

\* C2: after a successful publish that carries a child list, every child row
\* recorded for the parent whose UID the list omits has its soft-delete flag
\* true and its soft-delete timestamp and updated-at set, and the deleted
\* count is the number of such children.
C2_InferredDelete ==
    [][(Served /\ resp'.ok /\ req'.pkind \in {"list", "json"})
         => LET k == ReqKey(variant, req')
                removed == RemovedRows(hdr, rows, k, req')
            IN  /\ \A n \in removed :
                      /\ At(hdr'["proc"], rows'["proc"][n], "is_deleted") = "TRUE"
                      /\ At(hdr'["proc"], rows'["proc"][n], "deleted_at") # ""
                      /\ At(hdr'["proc"], rows'["proc"][n], "updated_at") # ""
                /\ resp'.deleted = Cardinality(UidsOf(hdr, rows, removed))]_vars

MainFields(v) == IF v = "app" THEN Range(MapKeys(main_mapping)) \ {"row_id"}
                 ELSE Range(MapKeys(main_cfg_mapping)) \ {row_key_payload}
ChildFields(v) == IF v = "app" THEN Range(MapKeys(proc_mapping)) \ {"row_id", "UID"}
                  ELSE Range(MapKeys(sub_cfg_mapping)) \ {"ID", "UID"}
ColumnOf(mapping, key) == mapping[CHOOSE i \in 1..Len(mapping) : mapping[i][1] = key][2]
MainColumn(v, key) == ColumnOf(IF v = "app" THEN main_mapping ELSE main_cfg_mapping, key)
ChildColumn(v, key) == ColumnOf(IF v = "app" THEN proc_mapping ELSE sub_cfg_mapping, key)

\* a payload object carries a value for a field
Given(obj, key) == key \in DOMAIN obj /\ obj[key] # None

\* the last child object of a body that carries the UID u
LastChild(body, u) ==
    LET hits == {i \in 1..Len(body.plist) :
                    /\ body.plist[i].obj /\ "UID" \in DOMAIN body.plist[i].kv
                    /\ Strip(Str(body.plist[i].kv["UID"])) = u}
    IN  body.plist[CHOOSE i \in hits : \A j \in hits : j <= i].kv

FirstMainRow(h, rws, k) ==
    CHOOSE n \in MainRowsOf(h, rws, k) : \A m \in MainRowsOf(h, rws, k) : n <= m

\* the cells of an updated row follow the patch rule: a field given with a
\* non-null value is written, any other mapped cell keeps its value
MainPatched(v, h, rws, h2, rws2, body) ==
    LET n == FirstMainRow(h, rws, ReqKey(v, body)) IN
    \A key \in MainFields(v) :
        At(h2["main"], rws2["main"][n], MainColumn(v, key))
          = IF Given(body.f, key) THEN Stored(body.f[key])
            ELSE At(h["main"], rws["main"][n], MainColumn(v, key))

ChildrenPatched(v, h, rws, h2, rws2, body) ==
    LET k == ReqKey(v, body) IN
    \A u \in IncomingUids(body) \cap UidsOf(h, rws, ChildRowsOf(h, rws, k)) :
        u # "" =>
        LET n == ChildRowOf(h, rws, k, u) IN
        \A key \in ChildFields(v) :
            At(h2["proc"], rws2["proc"][n], ChildColumn(v, key))
              = IF Given(LastChild(body, u), key) THEN Stored(LastChild(body, u)[key])
                ELSE At(h["proc"], rws["proc"][n], ChildColumn(v, key))

\* the cells of an updated row follow the snapshot rule: a field given with a
\* non-null value is written, any other mapped cell becomes blank
MainReplaced(v, h, rws, h2, rws2, body) ==
    LET n == FirstMainRow(h, rws, ReqKey(v, body)) IN
    \A key \in MainFields(v) :
        At(h2["main"], rws2["main"][n], MainColumn(v, key))
          = IF Given(body.f, key) THEN Stored(body.f[key]) ELSE ""

ChildrenReplaced(v, h, rws, h2, rws2, body) ==
    LET k == ReqKey(v, body) IN
    \A u \in IncomingUids(body) \cap UidsOf(h, rws, ChildRowsOf(h, rws, k)) :
        u # "" =>
        LET n == ChildRowOf(h, rws, k, u) IN
        \A key \in ChildFields(v) :
            At(h2["proc"], rws2["proc"][n], ChildColumn(v, key))
              = IF Given(LastChild(body, u), key) THEN Stored(LastChild(body, u)[key]) ELSE ""

C5_SoftDeleteOnly ==
    [][Served
         => /\ \A t \in Tabs : Len(rows'[t]) >= Len(rows[t])
            /\ (/\ resp'.ok /\ DeleteIntent(variant, req')
                /\ MainRowsOf(hdr, rows, ReqKey(variant, req')) # {})
                 => LET n == FirstMainRow(hdr, rows, ReqKey(variant, req')) IN
                    /\ Len(rows'["main"]) = Len(rows["main"])
                    /\ resp'.main_action = "soft_delete"
                    /\ Strip(Str(At(hdr'["main"], rows'["main"][n], "ID"))) = ReqKey(variant, req')
                    /\ At(hdr'["main"], rows'["main"][n], "is_deleted") = "TRUE"
                    /\ At(hdr'["main"], rows'["main"][n], "deleted_at") = TS(clock')]_vars

\* an existing main row was soft-deleted and is still there
C5_Witness ==
    /\ resp.ok /\ resp.main_action = "soft_delete"
    /\ req # NoBody /\ MainRowsOf(hdr, rows, ReqKey(variant, req)) # {}
    /\ At(hdr["main"], rows["main"][FirstMainRow(hdr, rows, ReqKey(variant, req))],
          "is_deleted") = "TRUE"

\* the store calls that write
WriteOps == {"write_range", "append_row", "batch_update"}

\* C6: a request rejected for a missing or blank key, for a child-list string
\* that is not valid JSON or for a child list that is not a list has performed
\* no write on either tab.
C6_ValidationBeforeWrite ==
    [][(Served /\ resp'.err \in {"MissingKey", "InvalidChildListEncoding", "InvalidChildListType"})
         => /\ resp'.status = 400
            /\ hdr' = hdr /\ rows' = rows
            /\ \A i \in 1..Len(resp'.ops) : resp'.ops[i][1] \notin WriteOps]_vars

NoDuplicateChildren(h, rws) ==
    \A i, j \in 1..Len(rws["proc"]) :
        (/\ i # j
         /\ ChildUid(h, rws, i) # ""
         /\ ChildUid(h, rws, i) = ChildUid(h, rws, j))
          => Strip(Str(At(h["proc"], rws["proc"][i], "ID")))
             # Strip(Str(At(h["proc"], rws["proc"][j], "ID")))

\* every child object of a body carries a non-blank UID
AllUidsGiven(body) ==
    \A i \in 1..Len(body.plist) :
        body.plist[i].obj =>
            /\ "UID" \in DOMAIN body.plist[i].kv
            /\ Strip(Str(body.plist[i].kv["UID"])) # ""

\* C7: successful publishes whose child objects all carry a non-blank UID,
\* lists that repeat a UID included, keep at most one child row per pair of
\* parent key and UID.
C7_UniqueChildren ==
    [][(Served /\ resp'.ok /\ AllUidsGiven(req') /\ NoDuplicateChildren(hdr, rows))
         => NoDuplicateChildren(hdr', rows')]_vars

\* C8 as stated: publishing one payload twice in a row, the key never deleted,
\* the second run reports "update" and leaves the main row as the first left it.
C8_AsStated ==
    [][(Served /\ req' = req /\ resp.ok /\ resp'.ok /\ ~DeleteIntent(variant, req'))
         => /\ resp'.main_action = "update"
            /\ rows'["main"] = rows["main"]]_vars

\* C8 (amended): publishing one payload twice in a row, the key never deleted,
\* the second run reports "update" and leaves every main row as the first left
\* it except the updated-at cell of the key's row, which holds the time of the
\* second run.
C8_Idempotent ==
    [][(Served /\ req' = req /\ resp.ok /\ resp'.ok /\ ~DeleteIntent(variant, req'))
         => LET n == FirstMainRow(hdr, rows, ReqKey(variant, req')) IN
            /\ resp'.main_action = "update"
            /\ Len(rows'["main"]) = Len(rows["main"])
            /\ \A m \in 1..Len(rows["main"]) : \A col \in Range(hdr'["main"]) :
                  At(hdr'["main"], rows'["main"][m], col)
                    = IF m = n /\ col = "updated_at" THEN TS(clock')
                      ELSE At(hdr["main"], rows["main"][m], col)]_vars

\* the same payload was served twice in a row: the sheet was seeded, the main
\* row could have been flagged by the other request of that turn and was not,
\* and the second run stamped it
C8_Witness ==
    /\ variant = "app" /\ clock = 1
    /\ resp.ok /\ resp.main_action = "update"
    /\ req \in Warmup("row_id", -1) /\ ~DeleteIntent(variant, req)
    /\ Len(rows["proc"]) = 2
    /\ "is_deleted" \in Range(hdr["main"])
    /\ At(hdr["main"], rows["main"][1], "is_deleted") # "TRUE"
    /\ At(hdr["main"], rows["main"][1], "updated_at") = TS(1)

\* a worker is past the main-row step of a request that has not failed
PastMain(p) ==
    /\ inflight[p].pc \in {"parse", "child", "removed", "batch", "done"}
    /\ inflight[p].err = ""

\* the row a handler staged for its main row
StagedMain(p) ==
    (CHOOSE i \in 1..Len(inflight[p].updates) : inflight[p].updates[i].tab = "main")

\* two requests in flight have both added a main row for one key
RacingAdds(p, q) ==
    /\ p # q /\ PastMain(p) /\ PastMain(q)
    /\ inflight[p].main_action = "add" /\ inflight[q].main_action = "add"
    /\ inflight[p].row_id = inflight[q].row_id

\* two requests in flight have both written an update of one main row
RacingUpdates(p, q) ==
    /\ p # q
    /\ inflight[p].pc = "done" /\ inflight[q].pc = "done"
    /\ inflight[p].err = "" /\ inflight[q].err = ""
    /\ inflight[p].main_action = "update" /\ inflight[q].main_action = "update"
    /\ inflight[p].main_row_num = inflight[q].main_row_num

\* a field that the request of worker p gave is not in the row it updated
UpdateLost(p) ==
    \E key \in MainFields("app") :
        /\ Given(inflight[p].body.f, key)
        /\ At(hdr["main"], rows["main"][inflight[p].main_row_num - 1], MainColumn("app", key))
             # Stored(inflight[p].body.f[key])

\* C9: two requests that two workers serve at once are not coordinated: when
\* both have added a main row for one key (each located no row before the
\* other appended) the main tab holds two rows with that key, and when both
\* have written an update of one row the row is, whole, the row one of them
\* staged, whatever the other wrote.
C9_Races ==
    \A p, q \in Procs :
        /\ RacingAdds(p, q)
             => Cardinality(MainRowsOf(hdr, rows, inflight[p].row_id)) >= 2
        /\ RacingUpdates(p, q)
             => rows["main"][inflight[p].main_row_num - 1]
                  \in {Overwrite(<<>>, inflight[p].updates[StagedMain(p)].vals),
                       Overwrite(<<>>, inflight[q].updates[StagedMain(q)].vals)}

\* both races have happened: the key has two rows, and of two updates of one
\* row that both completed one is lost
C9_Witness ==
    \E p, q \in Procs :
        /\ RacingUpdates(p, q)
        /\ UpdateLost(p)
        /\ Cardinality(MainRowsOf(hdr, rows, inflight[p].row_id)) >= 2

\* the columns of required that are not in H, in required's order, once each
RECURSIVE MissingFrom(_, _, _)
MissingFrom(H, required, out) ==
    IF required = <<>> THEN out
    ELSE MissingFrom(H, Tail(required),
                     IF Head(required) \in Range(H) \cup Range(out) THEN out
                     ELSE Append(out, Head(required)))

HeaderWritten == \E i \in 1..Len(call.ops) : call.ops[i][1] = "write_range"

\* C10: ensure_columns(tab, required) on a non-empty header H returns H
\* followed by the columns of required that are not in H, in required's order
\* and once each; it writes row 1 only when the header was empty or a column
\* was missing; with auto-extension disabled and a column missing it fails
\* with a 400 that names the tab and the missing columns, and writes nothing.
C10_EnsureColumns ==
    call.fn # "" =>
        LET H == call.before
            missing == MissingFrom(H, call.required, <<>>)
        IN  /\ HeaderWritten => (H = <<>> \/ missing # <<>>)
            /\ H # <<>> =>
                 IF missing = <<>>
                 THEN call.err = "" /\ call.ret = H /\ hdr[call.tab] = H
                 ELSE IF AUTO_ADD_COLUMNS
                 THEN /\ call.err = "" /\ call.ret = H \o missing
                      /\ hdr[call.tab] = H \o missing /\ HeaderWritten
                 ELSE /\ call.err = "SchemaMismatch"
                      /\ call.detail[1] = call.tab
                      /\ Range(call.detail[2]) = Range(missing)
                      /\ ~HeaderWritten /\ hdr[call.tab] = H

\* a payload value reads as true
ReadsTrue(v) ==
    IF v \in {TrueV, FalseV} THEN v = TrueV
    ELSE Lower(Strip(Str(v))) \in {"1", "true", "yes", "y"}

\* C11: get_flag is true if and only if some recognized key is present in
\* the payload with a value that reads as true, whatever the other recognized
\* keys carry.
C11_AnyKey ==
    call.fn = "get_flag" =>
        (call.ret <=> \E i \in 1..Len(call.keys) :
                         /\ call.keys[i] \in DOMAIN call.obj
                         /\ ReadsTrue(call.obj[call.keys[i]]))

\* the positions of a store call in the log of a request
OpsAt(ops, names, tabs) == {i \in 1..Len(ops) : ops[i][1] \in names /\ ops[i][2] \in tabs}

\* the tabs on which a request staged a range write
StagedTabs(r) == {r.updates[i].tab : i \in 1..Len(r.updates)}

\* the appends precede the batch, which is the last call, is one call, and is
\* made by a request that returns if and only if it staged a range
BatchLast(r) ==
    /\ \A i \in OpsAt(r.ops, {"append_row"}, Tabs) :
          \A j \in OpsAt(r.ops, {"batch_update"}, {""}) : i < j
    /\ OpsAt(r.ops, {"batch_update"}, {""}) \subseteq {Len(r.ops)}
    /\ r.ok => (OpsAt(r.ops, {"batch_update"}, {""}) # {} <=> r.updates # <<>>)

\* a staged range addresses a row that was there before the request and that
\* carries the same key (and, on the child tab, the same UID) after it
RangesOnTarget(v, h, rws, h2, rws2, r, body) ==
    \A i \in 1..Len(r.updates) :
        LET t == r.updates[i].tab
            n == r.updates[i].row - 1
        IN  /\ n \in 1..Len(rws[t])
            /\ Strip(Str(At(h2[t], rws2[t][n], "ID"))) = ReqKey(v, body)
            /\ Strip(Str(At(h[t], rws[t][n], "ID"))) = ReqKey(v, body)
            /\ t = "proc" => ChildUid(h2, rws2, n) = ChildUid(h, rws, n)

\* C12 as stated: in one request every scan that resolves the row of a staged
\* range precedes every append of the request, the appends precede the one
\* batched write, which comes last, and every staged range addresses the row
\* it was resolved for when the batch is applied.
C12_AsStated ==
    [][Served
         => /\ \A t \in StagedTabs(resp') :
                  \A i \in OpsAt(resp'.ops, {"read_range"}, {t}) :
                      \A j \in OpsAt(resp'.ops, {"append_row"}, Tabs) : i < j
            /\ BatchLast(resp')
            /\ resp'.ok => RangesOnTarget(variant, hdr, rows, hdr', rows', resp', req')]_vars

\* C12 (amended): in one request every scan that resolves the row of a staged
\* range precedes every append of the request to the tab it scanned (an append
\* to the other tab can precede it), the appends precede the one batched
\* write, which comes last, and every staged range addresses the row it was
\* resolved for when the batch is applied.
C12_Ordering ==
    [][Served
         => /\ \A t \in StagedTabs(resp') :
                  \A i \in OpsAt(resp'.ops, {"read_range"}, {t}) :
                      \A j \in OpsAt(resp'.ops, {"append_row"}, {t}) : i < j
            /\ BatchLast(resp')
            /\ resp'.ok => RangesOnTarget(variant, hdr, rows, hdr', rows', resp', req')]_vars

\* a request appended its main row, then resolved and staged a child row, and
\* sent the batch
C12_Witness ==
    /\ resp.ok
    /\ "proc" \in StagedTabs(resp)
    /\ OpsAt(resp.ops, {"append_row"}, {"main"}) # {}
    /\ OpsAt(resp.ops, {"batch_update"}, {""}) # {}

\* the child objects of a body, as app.py keeps them
Kids(body) == SelectSeq(body.plist, LAMBDA p : p.obj)

NoUid(p) == "UID" \notin DOMAIN p.kv \/ Strip(Str(p.kv["UID"])) = ""

\* the first child object without a non-blank UID
FirstNoUid(body) ==
    CHOOSE j \in 1..Len(Kids(body)) :
        NoUid(Kids(body)[j]) /\ \A i \in 1..(j - 1) : ~NoUid(Kids(body)[i])

\* the rows a tab had before a request are the same after it
RowsKept(t) ==
    /\ Len(rows'[t]) >= Len(rows[t])
    /\ \A n \in 1..Len(rows[t]) : rows'[t][n] = rows[t][n]

\* C13: in app.py a child object without a non-blank UID makes the publish
\* fail; when it fails at that child the response is a 400, the children
\* before it that were not recorded have been appended and no later one, the
\* main row appended for a never-seen key is there, header extensions stay, no
\* batch is sent and no row that was there has changed.
C13_StrictChild ==
    [][(/\ Served /\ variant = "app"
        /\ req'.pkind \in {"list", "json"}
        /\ \E j \in 1..Len(Kids(req')) : NoUid(Kids(req')[j]))
         => /\ ~resp'.ok
            /\ resp'.err = "MissingChildKey"
                 => LET k == ReqKey(variant, req')
                        j == FirstNoUid(req')
                        known == UidsOf(hdr, rows, ChildRowsOf(hdr, rows, k)) \ {""}
                        fresh == {i \in 1..(j - 1) :
                                     Strip(Str(Kids(req')[i].kv["UID"])) \notin known}
                    IN  /\ resp'.status = 400
                        /\ RowsKept("main") /\ RowsKept("proc")
                        /\ Len(rows'["proc"]) = Len(rows["proc"]) + Cardinality(fresh)
                        /\ Len(rows'["main"]) = Len(rows["main"])
                             + (IF MainRowsOf(hdr, rows, k) = {} /\ ~DeleteIntent(variant, req')
                                THEN 1 ELSE 0)
                        /\ \A t \in Tabs : \A i \in 1..Len(hdr[t]) : hdr'[t][i] = hdr[t][i]
                        /\ OpsAt(resp'.ops, {"batch_update"}, {""}) = {}]_vars

\* a publish for a never-seen key failed at its second child: the main row
\* and the first child are in the sheet
C13_Witness ==
    /\ variant = "app" /\ resp.err = "MissingChildKey"
    /\ Len(rows["main"]) = 1 /\ Len(rows["proc"]) = 1
    /\ OpsAt(resp.ops, {"append_row"}, Tabs) # {}

\* on every row of both tabs the soft-delete flag is true exactly when the
\* soft-delete timestamp is set
MarkersTogether ==
    \A t \in Tabs : \A n \in 1..Len(rows[t]) :
        (At(hdr[t], rows[t][n], "is_deleted") = "TRUE")
          <=> (At(hdr[t], rows[t][n], "deleted_at") # "")

\* C14: the soft-delete flag and the soft-delete timestamp are set together:
\* in every state a row's flag is true if and only if its timestamp is set,
\* and a request that reports a delete of an existing main row or of recorded
\* children has set both on the rows it reports.
C14_SetTogether ==
    /\ []MarkersTogether
    /\ [][(Served /\ resp'.ok)
            => LET k == ReqKey(variant, req') IN
               /\ (resp'.main_action = "soft_delete" /\ MainRowsOf(hdr, rows, k) # {})
                    => LET n == FirstMainRow(hdr, rows, k) IN
                       /\ At(hdr'["main"], rows'["main"][n], "is_deleted") = "TRUE"
                       /\ At(hdr'["main"], rows'["main"][n], "deleted_at") # ""
               /\ resp'.deleted > 0
                    => \A u \in UidsOf(hdr, rows, RemovedRows(hdr, rows, k, req')) :
                          LET n == ChildRowOf(hdr, rows, k, u) IN
                          /\ At(hdr'["proc"], rows'["proc"][n], "is_deleted") = "TRUE"
                          /\ At(hdr'["proc"], rows'["proc"][n], "deleted_at") # ""]_vars

\* C15: the soft-delete flag is monotonic: a main or child row whose flag is
\* true before a publish request still has it true after the request,
\* whatever key or child list the request carries.
C15_FlagMonotonic ==
    [][Served
         => \A t \in Tabs : \A n \in 1..Len(rows[t]) :
               At(hdr[t], rows[t][n], "is_deleted") = "TRUE"
                 => /\ n <= Len(rows'[t])
                    /\ At(hdr'[t], rows'[t][n], "is_deleted") = "TRUE"]_vars

\* C16: a publish for key K changes no data row of another key: every main
\* row whose key cell differs from K and every child row whose foreign-key
\* cell differs from K has the same cells after the request as before it.
C16_OtherKeysUntouched ==
    [][Served
         => \A t \in Tabs : \A n \in 1..Len(rows[t]) :
               Strip(Str(At(hdr[t], rows[t][n], "ID"))) # ReqKey(variant, req')
                 => /\ n <= Len(rows'[t])
                    /\ rows'[t][n] = rows[t][n]]_vars

\* a key was published with a child UID that another parent also records, and
\* the other parent has an omitted child too
C16_Witness ==
    /\ resp.ok /\ req # NoBody /\ ReqKey(variant, req) = "k2"
    /\ resp.added + resp.updated > 0
    /\ \E n \in ChildRowsOf(hdr, rows, "k1") : \E m \in ChildRowsOf(hdr, rows, "k2") :
          ChildUid(hdr, rows, n) = ChildUid(hdr, rows, m)
    /\ \E n \in ChildRowsOf(hdr, rows, "k1") :
          ChildUid(hdr, rows, n) \notin IncomingUids(req)

\* the last range a request staged for the row of its i-th staged range
LastStaged(r, i) ==
    LET same == {j \in 1..Len(r.updates) :
                    r.updates[j].tab = r.updates[i].tab /\ r.updates[j].row = r.updates[i].row}
    IN  r.updates[CHOOSE j \in same : \A m \in same : m <= j]

\* C17: in app.py a request that raises an error has applied none of the
\* range writes it staged: no batch is sent and every row that was there is
\* unchanged, so only header extensions and appends persist; a request that
\* returns a summary has sent its staged ranges in exactly one batch, and each
\* addressed row holds what was staged for it.
C17_StagedAllOrNothing ==
    [][(Served /\ variant = "app")
         => IF resp'.ok
            THEN /\ Cardinality(OpsAt(resp'.ops, {"batch_update"}, {""}))
                      = (IF resp'.updates # <<>> THEN 1 ELSE 0)
                 /\ \A i \in 1..Len(resp'.updates) :
                       LET t == resp'.updates[i].tab
                           n == resp'.updates[i].row - 1
                       IN  /\ n \in 1..Len(rows[t])
                           /\ rows'[t][n] = Overwrite(rows[t][n], LastStaged(resp', i).vals)
            ELSE /\ OpsAt(resp'.ops, {"batch_update"}, {""}) = {}
                 /\ RowsKept("main") /\ RowsKept("proc")
                 /\ \A t \in Tabs : \A i \in 1..Len(hdr[t]) : hdr'[t][i] = hdr[t][i]]_vars

\* a request had staged the update of its main row when a child made it fail
C17_Witness ==
    /\ variant = "app" /\ ~resp.ok /\ resp.err = "MissingChildKey"
    /\ \E i \in 1..Len(resp.updates) : resp.updates[i].tab = "main"
    /\ OpsAt(resp.ops, {"batch_update"}, {""}) = {}

====
